---- MODULE Spec2Model ----
(***************************************************************************)
(* Model of process_user_stories.py: remove_acceptance_criteria,           *)
(* format_description and process_description.                             *)
(*                                                                         *)
(* A text is a sequence of tokens.  Each token stands for one of the       *)
(* character strings the regular expressions of the program distinguish;   *)
(* no pattern of the program can match across or inside a token other than *)
(* as written here (the patterns are case-insensitive, a token stands for  *)
(* every case variant of its string).                                      *)
(***************************************************************************)
EXTENDS Integers, Sequences, FiniteSets

NL    == "NL"           \* the line break "\n"
SP    == "SP"           \* a blank " " (whitespace other than "\n")
STAR  == "*"
H2    == "h2."
ACC   == "Acceptance"
CRIT  == "Criteria"
COLON == ":"
SUCC  == "Success"
MET   == "Metrics"
AS    == "As"
A     == "a"
SO    == "so"
DESC  == "Description"
X     == "x"            \* any other character

Token == {NL, SP, STAR, H2, ACC, CRIT, COLON, SUCC, MET, AS, A, SO, DESC, X}

\* the characters \s matches and str.strip() removes
WS == {NL, SP}

\* regular-expression elements \s* and \s+ of a pattern head
WsStar == "\\s*"
WsPlus == "\\s+"

----------------------------------------------------------------------------
(* Python values: None or a str *)

None == [isNone |-> TRUE, chars |-> <<>>]

Str(s) == [isNone |-> FALSE, chars |-> s]

\* `if not description` is taken for None and for ""
Falsy(v) == v.isNone \/ v.chars = <<>>

----------------------------------------------------------------------------
(* helpers on token sequences *)

\* t[i:] of Python, with i a 1-based index of the first token kept
From(t, i) == SubSeq(t, i, Len(t))

\* does the literal token sequence lit occur in t starting at index i
StartsAt(t, i, lit) ==
    /\ i + Len(lit) - 1 <= Len(t)
    /\ \A k \in 1..Len(lit) : t[i + k - 1] = lit[k]

Contains(t, lit) == \E i \in 1..Len(t) : StartsAt(t, i, lit)

\* index of the first token at or after i that is not whitespace (Len(t)+1 if none)
RECURSIVE SkipWs(_, _)
SkipWs(t, i) ==
    IF i <= Len(t) /\ t[i] \in WS THEN SkipWs(t, i + 1) ELSE i

\* str.strip(): remove leading and trailing characters of set cs
RECURSIVE lstrip(_, _)
lstrip(t, cs) ==
    IF t # <<>> /\ Head(t) \in cs THEN lstrip(Tail(t), cs) ELSE t

RECURSIVE rstrip(_, _)
rstrip(t, cs) ==
    IF t # <<>> /\ t[Len(t)] \in cs THEN rstrip(SubSeq(t, 1, Len(t) - 1), cs) ELSE t

strip(t, cs) == rstrip(lstrip(t, cs), cs)

----------------------------------------------------------------------------
(* remove_acceptance_criteria *)

\* The five patterns, in the order of the list.  head is the part before
\* `.*?`; stops are the alternatives of the lookahead other than `$`.
patterns == <<
    [head  |-> <<NL, NL, H2, WsStar, ACC, WsPlus, CRIT>>,
     stops |-> {<<NL, NL, H2>>, <<NL, NL, STAR>>}],
    [head  |-> <<NL, NL, STAR, ACC, WsPlus, CRIT, COLON, STAR>>,
     stops |-> {<<NL, NL, STAR, SUCC>>, <<NL, NL, H2>>}],
    [head  |-> <<NL, NL, ACC, WsPlus, CRIT, COLON>>,
     stops |-> {<<NL, NL, STAR, SUCC>>, <<NL, NL, H2>>}],
    [head  |-> <<NL, NL, STAR, SUCC, WsPlus, MET, COLON, STAR>>,
     stops |-> {<<NL, NL, H2>>}],
    [head  |-> <<NL, NL, H2, WsStar, SUCC, WsPlus, MET>>,
     stops |-> {<<NL, NL, H2>>}] >>

\* Match the head h of a pattern from element k on, at index i of t: the
\* index after the head, or 0 when it does not match.  Every \s* and \s+ of
\* the patterns is followed by a literal that is not whitespace, so the
\* greedy run is the only length that can succeed.
RECURSIVE MatchHead(_, _, _, _)
MatchHead(h, k, t, i) ==
    IF k > Len(h) THEN i
    ELSE IF h[k] = WsStar THEN MatchHead(h, k + 1, t, SkipWs(t, i))
    ELSE IF h[k] = WsPlus THEN
        IF i <= Len(t) /\ t[i] \in WS THEN MatchHead(h, k + 1, t, SkipWs(t, i)) ELSE 0
    ELSE IF i <= Len(t) /\ t[i] = h[k] THEN MatchHead(h, k + 1, t, i + 1)
    ELSE 0

\* `$` without re.MULTILINE: at the end of the text, or before a line break
\* that ends the text
AtDollar(t, i) == i = Len(t) + 1 \/ (i = Len(t) /\ t[i] = NL)

\* the lookahead (?=stop1|stop2|$) at index i
Lookahead(p, t, i) == AtDollar(t, i) \/ \E lit \in p.stops : StartsAt(t, i, lit)

\* `.*?` with re.DOTALL followed by the lookahead: the first index at or
\* after i where the lookahead holds (one always exists: the end of the text)
RECURSIVE LazyUntil(_, _, _)
LazyUntil(p, t, i) ==
    IF Lookahead(p, t, i) THEN i ELSE LazyUntil(p, t, i + 1)

\* end (index after the match) of the match of pattern p at index i, 0 if none
MatchEnd(p, t, i) ==
    LET j == MatchHead(p.head, 1, t, i)
    IN  IF j = 0 THEN 0 ELSE LazyUntil(p, t, j)

\* re.sub(pattern, '', t): scan from the left, drop every match, go on after it
RECURSIVE SubFrom(_, _, _)
SubFrom(p, t, i) ==
    IF i > Len(t) THEN <<>>
    ELSE LET e == MatchEnd(p, t, i)
         IN  IF e = 0 THEN <<t[i]>> \o SubFrom(p, t, i + 1)
             ELSE SubFrom(p, t, e)

Sub(p, t) == SubFrom(p, t, 1)

\* for pattern in patterns: result = re.sub(pattern, '', result)
RECURSIVE ApplyPatterns(_, _)
ApplyPatterns(t, k) ==
    IF k > Len(patterns) THEN t ELSE ApplyPatterns(Sub(patterns[k], t), k + 1)

\* the clean-up written as re.sub(r'\n\n+', '\n', result)
RECURSIVE CollapseNewlinesToOne(_)
CollapseNewlinesToOne(t) ==
    IF t = <<>> THEN <<>>
    ELSE IF StartsAt(t, 1, <<NL, NL>>)
         THEN <<NL>> \o CollapseNewlinesToOne(lstrip(t, {NL}))
         ELSE <<Head(t)>> \o CollapseNewlinesToOne(Tail(t))

\* re.sub(r'\n\n\n+', '\n\n', result)
RECURSIVE CollapseNewlines(_)
CollapseNewlines(t) ==
    IF t = <<>> THEN <<>>
    ELSE IF StartsAt(t, 1, <<NL, NL, NL>>)
         THEN <<NL, NL>> \o CollapseNewlines(lstrip(t, {NL}))
         ELSE <<Head(t)>> \o CollapseNewlines(Tail(t))

remove_acceptance_criteria(description) ==
    IF Falsy(description) THEN description
    ELSE Str(strip(CollapseNewlines(ApplyPatterns(description.chars, 1)), WS))

----------------------------------------------------------------------------
(* format_description *)

\* index of the first line break at or after i, 0 if there is none
FirstNL(t, i) ==
    IF \E n \in i..Len(t) : t[n] = NL
    THEN CHOOSE n \in i..Len(t) : t[n] = NL /\ \A m \in i..(n - 1) : t[m] # NL
    ELSE 0

\* index of the last line break at or after i, 0 if there is none
LastNL(t, i) ==
    IF \E n \in i..Len(t) : t[n] = NL
    THEN CHOOSE n \in i..Len(t) : t[n] = NL /\ \A m \in (n + 1)..Len(t) : t[m] # NL
    ELSE 0

\* re.match(r'^(\*?As\s+a\s+.*?so\s+.*?\*?)\n', t, re.IGNORECASE | re.DOTALL):
\* the index of the line break that ends the match (group 1 is t[1..e-1],
\* match.end() is e), or 0 when there is no match.
\*   \*?        takes a leading '*' when `As` follows it;
\*   As\s+a\s+  the whitespace runs are greedy and are followed by a
\*              character that is not whitespace, or by `.*?`, which can
\*              take what a shorter run leaves;
\*   .*?so\s+   lazy: the first `so` followed by whitespace from which the
\*              remainder can still match, that is, with a line break at
\*              least two characters after it;
\*   \s+.*?\*?\n  the run after `so` is greedy, `.*?` is lazy: the match
\*              ends at the first line break after the whole run; when
\*              there is none the run gives characters back, and the match
\*              ends at the last line break of the run.
UserStoryEnd(t) ==
    LET p0 == IF Len(t) >= 1 /\ t[1] = STAR THEN 2 ELSE 1
        p1 == SkipWs(t, p0 + 1)
        okAs == /\ p0 + 1 <= Len(t)
                /\ t[p0] = AS
                /\ t[p0 + 1] \in WS
        okA  == /\ p1 + 1 <= Len(t)
                /\ t[p1] = A
                /\ t[p1 + 1] \in WS
        cands == {q \in (p1 + 2)..(Len(t) - 2) :
                     /\ t[q] = SO
                     /\ t[q + 1] \in WS
                     /\ FirstNL(t, q + 2) # 0}
    IN  IF ~(okAs /\ okA) \/ cands = {} THEN 0
        ELSE LET q == CHOOSE c \in cands : \A d \in cands : c <= d
                 r == SkipWs(t, q + 1)
             IN  IF FirstNL(t, r) # 0 THEN FirstNL(t, r) ELSE LastNL(t, q + 2)

\* re.match(r'^h2\.\s*Description', rest, re.IGNORECASE)
HasDescriptionHeading(rest) ==
    /\ StartsAt(rest, 1, <<H2>>)
    /\ StartsAt(rest, SkipWs(rest, 2), <<DESC>>)

\* format_description with the heading written as "h2. Description\n"
format_description_one_break(description) ==
    IF Falsy(description) THEN description
    ELSE LET t == description.chars
             e == UserStoryEnd(t)
         IN  IF e = 0 THEN description
             ELSE LET user_story_line == strip(strip(SubSeq(t, 1, e - 1), WS), {STAR})
                      rest == strip(From(t, e + 1), WS)
                  IN  IF HasDescriptionHeading(rest)
                      THEN Str(user_story_line \o <<NL, NL>> \o rest)
                      ELSE Str(user_story_line \o <<NL, NL, H2, SP, DESC, NL>> \o rest)

format_description(description) ==
    IF Falsy(description) THEN description
    ELSE LET t == description.chars
             e == UserStoryEnd(t)
         IN  IF e = 0 THEN description
             ELSE LET user_story_line == strip(strip(SubSeq(t, 1, e - 1), WS), {STAR})
                      rest == strip(From(t, e + 1), WS)
                  IN  IF HasDescriptionHeading(rest)
                      THEN Str(user_story_line \o <<NL, NL>> \o rest)
                      ELSE Str(user_story_line \o <<NL, NL, H2, SP, DESC, NL, NL>> \o rest)

----------------------------------------------------------------------------
(* process_description *)

\* process_description with `return description or ""` as its first statement
process_description_or_empty(description) ==
    IF Falsy(description) THEN Str(<<>>)
    ELSE format_description(remove_acceptance_criteria(description))

\* process_description passing description, not cleaned, to format_description
process_description_uncleaned(description) ==
    IF Falsy(description) THEN description
    ELSE format_description(description)

process_description(description) ==
    IF Falsy(description) THEN description
    ELSE LET cleaned == remove_acceptance_criteria(description)
             formatted == format_description(cleaned)
         IN  formatted

----------------------------------------------------------------------------
(* the program as a state machine: a caller holds a description and calls   *)
(* one of the three functions on it                                         *)

VARIABLES description, called, result

vars == <<description, called, result>>

\* the two descriptions of the list test_cases of __main__; a word that no
\* pattern mentions is an X
test_cases == <<
    <<AS, SP, A, SP, X, SP, X, SP, X, SP, X, SP, SO, SP, X, NL, NL,
      H2, SP, DESC, NL, NL,
      X, SP, DESC, SP, X, NL, NL,
      H2, SP, ACC, SP, CRIT, NL,
      STAR, SP, X, SP, X, NL,
      STAR, SP, X, SP, X>>,
    <<STAR, AS, SP, A, SP, X, SP, X, SP, X, SP, X, SP, SO, SP, X, STAR, NL, NL,
      DESC, SP, X, NL, NL,
      STAR, ACC, SP, CRIT, COLON, STAR, NL,
      STAR, SP, X, SP, X, NL,
      STAR, SP, X, SP, X, NL, NL,
      STAR, SUCC, SP, MET, COLON, STAR, NL,
      STAR, SP, X, SP, X>> >>

TestCases == {test_cases[i] : i \in 1..Len(test_cases)}

\* all texts over alphabet alpha of at most n tokens
Texts(alpha, n) == UNION {[1..k -> alpha] : k \in 0..n}

MaxLen == 3
MaxTail == 4
MaxContent == 3

\* every text of at most MaxLen tokens, and the absent description
FreeInputs == {None} \cup {Str(t) : t \in Texts(Token, MaxLen) \cup TestCases}

\* descriptions around a user-story sentence
StoryLeads == {<<>>, <<SP>>, <<STAR>>}

StoryOpenings == {<<AS, SP, A, SP, SO>>,
                  <<AS, SP, A, SP, X, SP, SO, SP, X>>,
                  <<AS, SP, A, SP, X>>}

StoryClosings == {<<>>,
                  <<H2, SP, DESC, NL, X>>,
                  <<NL, NL, H2, SP, ACC, SP, CRIT, NL, STAR, SP, X>>}

StoryInputs ==
    {Str(lead \o opening \o tail \o closing) :
        lead \in StoryLeads, opening \in StoryOpenings,
        tail \in Texts({NL, SP, STAR, X}, MaxTail), closing \in StoryClosings}
    \cup {Str(t) : t \in TestCases}

\* descriptions around a section heading
SectionBefores == {<<>>, <<X>>, <<AS, SP, A, SP, SO, SP, X>>}

SectionSeparators == {<<>>, <<NL>>, <<NL, NL>>}

SectionHeadings == {<<H2, SP, ACC, SP, CRIT>>,
                    <<STAR, ACC, SP, CRIT, COLON, STAR>>,
                    <<ACC, SP, CRIT, COLON>>,
                    <<STAR, SUCC, SP, MET, COLON, STAR>>,
                    <<H2, SP, SUCC, SP, MET>>}

SectionFollowers == {<<>>} \cup {<<NL, NL>> \o h \o <<NL, STAR, SP, X>> : h \in SectionHeadings}

SectionInputs ==
    {Str(before \o sep \o heading \o content \o follower) :
        before \in SectionBefores, sep \in SectionSeparators,
        heading \in SectionHeadings,
        content \in Texts({NL, STAR, X}, MaxContent),
        follower \in SectionFollowers}
    \cup {Str(t) : t \in TestCases}

InitWith(inputs) ==
    /\ description \in inputs
    /\ called = "none"
    /\ result = None

Init == InitWith(FreeInputs)

InitStory == InitWith(StoryInputs)

InitSection == InitWith(SectionInputs)

\* result = remove_acceptance_criteria(description)
RemoveAcceptanceCriteria ==
    /\ called = "none"
    /\ result' = remove_acceptance_criteria(description)
    /\ called' = "remove_acceptance_criteria"
    /\ UNCHANGED description

\* result = format_description(description)
FormatDescription ==
    /\ called = "none"
    /\ result' = format_description(description)
    /\ called' = "format_description"
    /\ UNCHANGED description

\* result = process_description(description)
ProcessDescription ==
    /\ called = "none"
    /\ result' = process_description(description)
    /\ called' = "process_description"
    /\ UNCHANGED description

Next ==
    \/ RemoveAcceptanceCriteria
    \/ FormatDescription
    \/ ProcessDescription

Spec == Init /\ [][Next]_vars

SpecStory == InitStory /\ [][Next]_vars

SpecSection == InitSection /\ [][Next]_vars

----------------------------------------------------------------------------
(* predicates the properties are stated with *)

T == description.chars

R == result.chars

TripleBreak == <<NL, NL, NL>>

\* none of the five patterns matches anywhere in t
NoPatternMatches(t) ==
    \A k \in 1..Len(patterns) : \A i \in 1..Len(t) : MatchEnd(patterns[k], t, i) = 0

\* t has no leading or trailing whitespace and no run of three line breaks
Trimmed(t) == t # <<>> /\ t[1] \notin WS /\ t[Len(t)] \notin WS

Tidy(t) == Trimmed(t) /\ ~Contains(t, TripleBreak)

\* index i starts a line of t
LineStart(t, i) == i = 1 \/ (i > 1 /\ i <= Len(t) /\ t[i - 1] = NL)

\* a heading line 'h2. Acceptance Criteria' followed by a bullet line
HasAcceptanceSection(t) ==
    \E i \in 1..Len(t) :
        LineStart(t, i) /\ StartsAt(t, i, <<H2, SP, ACC, SP, CRIT, NL, STAR>>)

\* a heading line 'h2. Success Metrics' or a bold label '*Success Metrics:*'
HasSuccessSection(t) ==
    \E i \in 1..Len(t) :
        /\ LineStart(t, i)
        /\ \/ StartsAt(t, i, <<H2, SP, SUCC, SP, MET>>)
           \/ StartsAt(t, i, <<STAR, SUCC, SP, MET, COLON, STAR>>)

\* the text of t before its first blank line (all of t when it has none)
BeforeBlankLine(t) ==
    IF Contains(t, <<NL, NL>>)
    THEN SubSeq(t, 1, (CHOOSE i \in 1..Len(t) :
                          /\ StartsAt(t, i, <<NL, NL>>)
                          /\ \A j \in 1..(i - 1) : ~StartsAt(t, j, <<NL, NL>>)) - 1)
    ELSE t

\* s is a sentence 'As a ... so ...' on one line, without trailing whitespace
SingleLineStory(s) ==
    /\ ~Contains(s, <<NL>>)
    /\ s # <<>> /\ s[Len(s)] \notin WS
    /\ StartsAt(s, 1, <<AS, SP>>)
    /\ StartsAt(s, SkipWs(s, 2), <<A, SP>>)
    /\ \E q \in (SkipWs(s, 2) + 2)..Len(s) : StartsAt(s, q, <<SO, SP>>)

\* t is S + blank line + B: S is the first line, B what follows the blank line
StoryOf(t) == SubSeq(t, 1, FirstNL(t, 1) - 1)

BodyOf(t) == From(t, FirstNL(t, 1) + 2)

IsStoryAndBody(t) ==
    /\ FirstNL(t, 1) # 0
    /\ StartsAt(t, FirstNL(t, 1), <<NL, NL>>)
    /\ SingleLineStory(StoryOf(t))
    /\ \E i \in 1..Len(BodyOf(t)) : BodyOf(t)[i] \notin WS
    /\ ~HasDescriptionHeading(BodyOf(t))
    /\ NoPatternMatches(t)

Reshaped(t) == Str(StoryOf(t) \o <<NL, NL, H2, SP, DESC, NL, NL>> \o BodyOf(t))

----------------------------------------------------------------------------
(* properties *)

\* C1: process_description is idempotent: processing the result of
\* process_description again returns that result unchanged.
C1_Idempotent ==
    called = "process_description" => process_description(result) = result

\* C2: for a non-empty description the output of process_description never
\* contains three or more consecutive line breaks.
C2_NoTripleBreak ==
    (called = "process_description" /\ ~Falsy(description))
        => ~Contains(R, TripleBreak)

\* C3: when the description has a section headed 'h2. Acceptance Criteria'
\* followed by bullet lines, wherever the heading line sits, the output of
\* remove_acceptance_criteria has no occurrence of 'Acceptance Criteria'.
C3_AcceptanceRemoved ==
    (called = "remove_acceptance_criteria" /\ HasAcceptanceSection(T))
        => ~Contains(R, <<ACC, SP, CRIT>>)

\* C4: when the description has a 'Success Metrics' section, in heading or
\* bold-label form, the output of remove_acceptance_criteria has no
\* occurrence of 'Success Metrics'.
C4_SuccessRemoved ==
    (called = "remove_acceptance_criteria" /\ HasSuccessSection(T))
        => ~Contains(R, <<SUCC, SP, MET>>)

C6_PassThroughOfInput ==
    (called = "process_description" /\ ~Falsy(description) /\ UserStoryEnd(T) = 0)
        => result = remove_acceptance_criteria(description)

\* C6: when the output of remove_acceptance_criteria for the description does
\* not begin with a user-story sentence, process_description returns that
\* output.
C6_PassThroughOfCleaned ==
    (/\ called = "process_description"
     /\ ~Falsy(description)
     /\ UserStoryEnd(remove_acceptance_criteria(description).chars) = 0)
        => result = remove_acceptance_criteria(description)

C6_Witness ==
    /\ called = "process_description"
    /\ ~Falsy(description)
    /\ UserStoryEnd(remove_acceptance_criteria(description).chars) = 0
    /\ Contains(T, <<ACC, SP, CRIT>>)
    /\ ~Contains(R, <<ACC, SP, CRIT>>)
    /\ ~Contains(R, <<H2, SP, DESC>>)

\* C7: for None and for the empty string each of the three functions returns
\* its argument.
C7_AbsenceNoOp ==
    (called # "none" /\ Falsy(description)) => result = description

C7_Witness ==
    /\ called = "process_description"
    /\ description = None
    /\ result = None

\* C8 as claimed: when no pattern matches the description,
\* remove_acceptance_criteria returns it unchanged, and so does
\* process_description when it does not begin with a user-story sentence.
C8_NoMatchUnchanged ==
    (~Falsy(description) /\ NoPatternMatches(T)) =>
        /\ called = "remove_acceptance_criteria" => result = description
        /\ (called = "process_description" /\ UserStoryEnd(T) = 0)
              => result = description

\* C8: the same, for a description without leading or trailing whitespace
\* and without a run of three or more line breaks.
C8_NoMatchTidyUnchanged ==
    (~Falsy(description) /\ NoPatternMatches(T) /\ Tidy(T)) =>
        /\ called = "remove_acceptance_criteria" => result = description
        /\ (called = "process_description" /\ UserStoryEnd(T) = 0)
              => result = description

C8_Witness ==
    /\ called = "remove_acceptance_criteria"
    /\ NoPatternMatches(T)
    /\ Tidy(T)
    /\ Contains(T, <<NL, NL>>)
    /\ Contains(T, <<NL, H2, SP, ACC, SP, CRIT>>)
    /\ result = description

\* C9: when a paragraph 'h2. Acceptance Criteria' follows a blank line, no
\* bullet stands before it and neither a 'h2.' paragraph nor a bold label
\* follows it, remove_acceptance_criteria removes the section to the end of
\* the text: no bullet line remains in the output.
C9_SectionExtent ==
    (/\ called = "remove_acceptance_criteria"
     /\ \E i \in 1..Len(T) :
           /\ StartsAt(T, i, <<NL, NL, H2, SP, ACC, SP, CRIT>>)
           /\ \A j \in 1..i : T[j] # STAR
           /\ \A j \in (i + 7)..Len(T) : T[j] \notin {H2, COLON})
        => ~Contains(R, <<STAR>>)

\* C10: when format_description matches a user-story sentence, the text
\* before the first blank line of its output neither starts nor ends with
\* '*' or whitespace.
C10_StoryLineStripped ==
    (called = "format_description" /\ ~Falsy(description) /\ UserStoryEnd(T) # 0)
        => LET line == BeforeBlankLine(R)
           IN  /\ line # <<>>
               /\ line[1] \notin WS \cup {STAR}
               /\ line[Len(line)] \notin WS \cup {STAR}

====
